---- MODULE Spec2Model ----
(***************************************************************************)
(* Model of the copy command of imgpkg (package cmd, CopyOptions.Run and   *)
(* the lock-output writer) as found in                                     *)
(* src/pkg/imgpkg/imageset/unprocessed_image_refs.go, lines 82-411.        *)
(*                                                                         *)
(* One behaviour is one invocation of CopyOptions.Run with a fixed set of  *)
(* flags.  The external collaborators (registry construction, CopyToTar,   *)
(* CopyToRepository, the bundle detector, lock-file reads and writes) are  *)
(* steps whose results are chosen nondeterministically; every call is      *)
(* appended to the log `calls`.                                            *)
(***************************************************************************)
EXTENDS Integers, Sequences, FiniteSets, TLC

\* ------------------------------------------------------------------ bounds
\* digest references are modelled as 1..MaxDigest, ordered as the strings are
MaxDigest == 2
\* most processed images returned by CopyToRepository
MaxImages == 2
\* most entries of the ImagesLock given with --lock
MaxLock == 2
\* goroutines calling into one UnprocessedImageRefs
NumWorkers == 2
\* most calls of Add, All and Length started in one behaviour
MaxOps == 4
\* most calls started in one behaviour of the fair specification
MaxFairOps == 3

Digests == 1..MaxDigest
Tags == {"", "v1"}

\* ------------------------------------------------------------ error values
ErrSrc == "Expected either --lock, --bundle (-b), --image (-i), or --tar as a source"
ErrDst == "Expected either --to-tar or --to-repo"
ErrTarTar == "Cannot use tar source (--tar) with tar destination (--to-tar)"
ErrLockTar == "Cannot output lock file with tar destination"
ErrResume == "Flag --resume can only be used when copying to tar"
ErrIndeterminate ==
  "Unable to determine correct root bundle to use for lock-output. hint: if copying from a tarball, try re-generating the tarball"
ErrNotCopied == "Expected image to have been copied but was not"
ErrCheck == "Check if image is bundle: error"
\* errors produced by the collaborators themselves
ErrRegistry == "registry.NewSimpleRegistry: error"
ErrCopy == "copy: error"
ErrRead == "lockconfig.NewImagesLockFromPath: error"
ErrWrite == "WriteToPath: error"
\* a Go panic: the process is aborted, Run does not return
Panic == "panic"
Nil == "nil"

ValidationErrors == {ErrSrc, ErrDst, ErrTarTar, ErrLockTar, ErrResume}

\* ------------------------------------------------------------------- state
VARIABLES
  flags,      \* the CopyOptions fields set from the command line
  pc,         \* position of Run
  ret,        \* what Run returned ("none" while running, Panic if aborted)
  calls,      \* log of collaborator calls, in order
  opts,       \* v1.CopyOpts built by Run
  origin,     \* v1.CopyOrigin built by Run
  processed,  \* *ProcessedImages returned by CopyToRepository
  lockIn,     \* imagesLock.Images read from the --lock file by the writer
  written,    \* lock artifacts handed to WriteToPath, in order
  \* one UnprocessedImageRefs shared by the workers
  imgRefs,    \* the map imgRefs: key -> UnprocessedImageRef
  mutex,      \* the field lock: 0 when free, else the worker holding it
  wpc,        \* position of each worker in its current call
  warg,       \* the argument of each worker's current or last Add
  wres,       \* what each worker's last finished call returned
  lenSizes,   \* sizes the map had since each worker's Length was called
  aborted,    \* a panic has unwound out of Add
  ops         \* calls started so far

runVars == <<flags, pc, ret, calls, opts, origin, processed, lockIn, written>>
refVars == <<imgRefs, mutex, wpc, warg, wres, lenSizes, aborted, ops>>
vars == <<runVars, refVars>>

\* CopyOptions: the fields Run reads
CopyOptions ==
  [lock : {"", "images.lock"}, tarSrc : {"", "src.tar"},
   bundle : {"", "reg/bundle"}, image : {"", "reg/image"},
   repoDst : {"", "reg/dst"}, tarDst : {"", "dst.tar"},
   resume : BOOLEAN, lockOut : {"", "out.lock"}]

\* ----------------------------------------------------- flag predicates
\* TarFlags.IsDst / TarFlags.IsSrc: the tar destination / source is set
IsDst(c) == c.tarDst # ""
IsSrc(c) == c.tarSrc # ""

isRepoDst(c) == c.repoDst # ""

hasOneDst_any(c) == isRepoDst(c) \/ IsDst(c)
hasOneDst(c) ==
  LET repoSet == isRepoDst(c)
      tarSet == IsDst(c)
  IN (repoSet \/ tarSet) /\ ~(repoSet /\ tarSet)

SrcRefs(c) == <<c.lock, c.tarSrc, c.bundle, c.image>>

\* the loop of hasOneSrc from position i with the local `seen`
RECURSIVE hasOneSrcFrom(_, _, _)
hasOneSrcFrom(refs, i, seen) ==
  IF i > Len(refs) THEN seen
  ELSE IF refs[i] # ""
       THEN IF seen THEN FALSE ELSE hasOneSrcFrom(refs, i + 1, TRUE)
       ELSE hasOneSrcFrom(refs, i + 1, seen)

hasOneSrc_any(c) == \E i \in 1..Len(SrcRefs(c)) : SrcRefs(c)[i] # ""
hasOneSrc(c) == hasOneSrcFrom(SrcRefs(c), 1, FALSE)

\* opts := v1.CopyOpts{... Resume: c.TarFlags.Resume}
CopyOpts(c) == [built |-> TRUE, Resume |-> c.resume]

\* the checks at the head of `case c.TarFlags.IsDst()`
CheckTarDst_noSrcCheck(c) ==
  IF c.lockOut # "" THEN ErrLockTar ELSE Nil
CheckTarDst_noLockCheck(c) ==
  IF IsSrc(c) THEN ErrTarTar ELSE Nil
CheckTarDst(c) ==
  IF IsSrc(c) THEN ErrTarTar
  ELSE IF c.lockOut # "" THEN ErrLockTar
  ELSE Nil

\* the check at the head of `case c.isRepoDst()`
CheckRepoDst(c) == IF c.resume THEN ErrResume ELSE Nil

NoOrigin == [ImageRef |-> "", BundleRef |-> "", TarPath |-> "", LockfilePath |-> ""]

TarOrigin(c) ==
  [ImageRef |-> c.image, BundleRef |-> c.bundle, TarPath |-> "",
   LockfilePath |-> c.lock]

RepoOrigin_noTar(c) ==
  [ImageRef |-> c.image, BundleRef |-> c.bundle, TarPath |-> "",
   LockfilePath |-> c.lock]
RepoOrigin(c) ==
  [ImageRef |-> c.image, BundleRef |-> c.bundle, TarPath |-> c.tarSrc,
   LockfilePath |-> c.lock]

\* ------------------------------------------------------- processed images
\* A ProcessedImage: src/tag are UnprocessedImageRef.DigestRef/Tag, dst is
\* ProcessedImage.DigestRef, root is v1.IsRootBundle, kind is "index" when
\* ImageIndex is set and otherwise what Bundle.IsBundle answers for it
\* ("bundle": true, "image": false, "err": an error).
ProcessedImage ==
  [src : Digests, tag : Tags, dst : Digests, root : BOOLEAN,
   kind : {"index", "image", "bundle", "err"}]

Key(p) == <<p.src, p.tag>>

\* the sets keyed by Key with at most n entries
RECURSIVE ProcessedSets(_)
ProcessedSets(n) ==
  IF n = 0 THEN {{}}
  ELSE LET prev == ProcessedSets(n - 1)
       IN prev \cup
          {s \cup {p} : <<s, p>> \in
             {sp \in prev \X ProcessedImage :
                \A q \in sp[1] : Key(q) # Key(sp[2])}}

\* ProcessedImages.All: a snapshot sorted ascending by digest_ref; entries
\* with equal digest_ref come in any order
All(ps) ==
  LET n == Cardinality(ps)
  IN {s \in [1..n -> ps] :
        /\ \A i, j \in 1..n : i # j => s[i] # s[j]
        /\ \A i \in 1..n : \A j \in 1..n : i < j => s[i].dst <= s[j].dst}

\* ProcessedImages.FindByURL: the entries matching on digest_ref, tag ignored
FindByURL(ps, ref) == {p \in ps : p.src = ref.DigestRef}


\* ------------------------------------------------------ collaborator calls
\* an entry of the log: the operation, the digest reference it is about (0
\* when it has none) and its result
Call(op, arg, res) == [op |-> op, arg |-> arg, res |-> res]

\* BundleLock.WriteToPath / ImagesLock.WriteToPath
WriteToPath(res) == Call("WriteToPath", 0, res)

\* Bundle.IsBundle on the bundle built from processed image p (its DigestRef)
IsBundle(p) ==
  Call("IsBundle", p.dst,
       CASE p.kind = "bundle" -> "true"
         [] p.kind = "image" -> "false"
         [] OTHER -> "err")

\* ------------------------------------------------------- the lock writer
NoRoot == [st |-> "none"]

\* the loop of findProcessedImageRootBundle from position i, cur being
\* bundleProcessedImage; a second marked image panics
RECURSIVE findRootFrom(_, _, _)
findRootFrom(all, i, cur) ==
  IF i > Len(all) THEN cur
  ELSE IF all[i].root
       THEN IF cur.st = "found" THEN [st |-> Panic]
            ELSE findRootFrom(all, i + 1, [st |-> "found", img |-> all[i]])
       ELSE findRootFrom(all, i + 1, cur)

findProcessedImageRootBundle(all) == findRootFrom(all, 1, NoRoot)

\* the loop of informUserIfTarballNeedsToBeRecreated from position i, after
\* n calls of IsBundle: the error returned and the number of detector calls
RECURSIVE informFrom(_, _, _)
informFrom(all, i, cs) ==
  IF i > Len(all) THEN [err |-> Nil, calls |-> cs]
  ELSE IF all[i].kind = "index" THEN informFrom(all, i + 1, cs)
  ELSE LET cs2 == Append(cs, IsBundle(all[i]))
       IN IF all[i].kind = "err" THEN [err |-> ErrCheck, calls |-> cs2]
          ELSE IF all[i].kind = "bundle"
          THEN [err |-> ErrIndeterminate, calls |-> cs2]
          ELSE informFrom(all, i + 1, cs2)

\* the same loop with the `if ok` branch left out
RECURSIVE informFrom_ignoreOk(_, _, _)
informFrom_ignoreOk(all, i, cs) ==
  IF i > Len(all) THEN [err |-> Nil, calls |-> cs]
  ELSE IF all[i].kind = "index" THEN informFrom_ignoreOk(all, i + 1, cs)
  ELSE LET cs2 == Append(cs, IsBundle(all[i]))
       IN IF all[i].kind = "err" THEN [err |-> ErrCheck, calls |-> cs2]
          ELSE informFrom_ignoreOk(all, i + 1, cs2)

informUserIfTarballNeedsToBeRecreated_ignoreOk(all) ==
  informFrom_ignoreOk(all, 1, <<>>)
informUserIfTarballNeedsToBeRecreated(all) == informFrom(all, 1, <<>>)

\* plainimage.NewFetchedPlainImageWithTag + bundle.NewBundleFromPlainImage:
\* the bundle carries the digest reference and tag it was built with
NewBundle(digestRef, tag) == [DigestRef |-> digestRef, Tag |-> tag]

\* the BundleLock of writeBundleLockOutput
BundleLock_noTag(c, bundle) ==
  [path |-> c.lockOut, kind |-> "BundleLock", image |-> bundle.DigestRef,
   tag |-> ""]
BundleLock(c, bundle) ==
  [path |-> c.lockOut, kind |-> "BundleLock", image |-> bundle.DigestRef,
   tag |-> bundle.Tag]

\* the ImagesLock of writeImagesLockOutput
ImagesLock(c, images) ==
  [path |-> c.lockOut, kind |-> "ImagesLock", images |-> images]

\* lock-input branch: entry i becomes the DigestRef of the image found for it
RewrittenImages_keepSource(images, img) ==
  [i \in 1..Len(images) |-> images[i]]
RewrittenImages(images, img) ==
  [i \in 1..Len(images) |-> img[i].dst]

\* other branch: one entry per processed image, in the order of All()
ListedImages_dropFirst(all) ==
  [i \in 1..(Len(all) - 1) |-> all[i + 1].dst]
ListedImages(all) ==
  [i \in 1..Len(all) |-> all[i].dst]

\* the Images of the ImagesLock files NewImagesLockFromPath can return
RECURSIVE SeqsUpTo(_)
SeqsUpTo(n) ==
  IF n = 0 THEN {<<>>}
  ELSE SeqsUpTo(n - 1) \cup [1..n -> Digests]
LockInputs == SeqsUpTo(MaxLock)

\* ------------------------------------------------- UnprocessedImageRefs
Workers == 1..NumWorkers

\* A reference string in its parts: repository, separator, and after the
\* separator either a tag (algo "") or algo ":" hex, the hex part given by
\* its length and a number standing for its digits.
RefLatest == [repo |-> "reg/a", sep |-> ":", algo |-> "", hexlen |-> 0, hex |-> 0]
RefShort == [repo |-> "reg/a", sep |-> "@", algo |-> "sha256", hexlen |-> 3, hex |-> 10]
RefA1 == [repo |-> "reg/a", sep |-> "@", algo |-> "sha256", hexlen |-> 64, hex |-> 1]
RefB1 == [repo |-> "reg/b", sep |-> "@", algo |-> "sha256", hexlen |-> 64, hex |-> 1]

\* the reference strings of the model in ascending string order:
\* "reg/a:latest" < "reg/a@sha256:1.." < "reg/a@sha256:abc" <
\* "reg/b@sha256:1.."
RefStrings == <<RefLatest, RefA1, RefShort, RefB1>>

\* a < b on strings
StrLess(a, b) ==
  \E i \in 1..Len(RefStrings) : \E j \in 1..Len(RefStrings) :
    i < j /\ RefStrings[i] = a /\ RefStrings[j] = b

\* regname.NewDigest: the string must have the form repo@algo:hex with a
\* sha256 digest of 64 hex digits
NewDigest(ref) ==
  IF ref.sep = "@" /\ ref.algo = "sha256" /\ ref.hexlen = 64 THEN Nil ELSE "err"

\* the struct UnprocessedImageRef; Labels are left out, OrigRef tells two
\* records with the same key apart
UnprocessedImageRef ==
  [DigestRef : {RefStrings[i] : i \in 1..Len(RefStrings)}, Tag : Tags,
   OrigRef : {"o1", "o2"}]

\* the arguments Add is called with
AddInputs ==
  {u \in UnprocessedImageRef :
     NewDigest(u.DigestRef) = Nil \/ (u.Tag = "" /\ u.OrigRef = "o1")}

\* UnprocessedImageRef.Key: DigestRef + ":" + Tag
KeyOf_noTag(u) == <<u.DigestRef, ":", "">>
KeyOf(u) == <<u.DigestRef, ":", u.Tag>>

\* UnprocessedImageRef.Validate: panics unless the digest parses
ValidateRef_noop(u) == Nil
ValidateRef(u) == IF NewDigest(u.DigestRef) # Nil THEN Panic ELSE Nil

\* i.imgRefs[imgRef.Key()] = imgRef
Put(m, u) ==
  [k \in DOMAIN m \cup {KeyOf(u)} |-> IF k = KeyOf(u) THEN u ELSE m[k]]

EmptyRefs == [k \in {} |-> RefLatest]

\* len(i.imgRefs)
Length(m) == Cardinality(DOMAIN m)

\* All: the records of the map in the order the range loop met them,
\* sorted with sort.Slice by DigestRef; the loop order is arbitrary and the
\* sort is not stable, so records with equal DigestRef come in any order
AllRefs_unsorted(m) ==
  LET n == Length(m)
  IN {s \in [1..n -> {m[k] : k \in DOMAIN m}] :
        \A i, j \in 1..n : i # j => s[i] # s[j]}
AllRefs(m) ==
  LET n == Length(m)
  IN {s \in [1..n -> {m[k] : k \in DOMAIN m}] :
        /\ \A i, j \in 1..n : i # j => s[i] # s[j]
        /\ \A i \in 1..n : \A j \in 1..n :
             i < j => ~StrLess(s[j].DigestRef, s[i].DigestRef)}

NoArg == [DigestRef |-> RefLatest, Tag |-> "", OrigRef |-> ""]

NoResult ==
  [op |-> "none", seq |-> <<>>, snap |-> EmptyRefs, len |-> 0,
   raced |-> FALSE, exact |-> TRUE]

RefsInit ==
  /\ imgRefs = EmptyRefs
  /\ mutex = 0
  /\ wpc = [w \in Workers |-> "idle"]
  /\ warg = [w \in Workers |-> NoArg]
  /\ wres = [w \in Workers |-> NoResult]
  /\ lenSizes = [w \in Workers |-> {}]
  /\ aborted = FALSE
  /\ ops = 0

\* ----------------------------------------------------------------- actions
Init ==
  /\ RefsInit
  /\ flags \in CopyOptions
  /\ pc = "Run"
  /\ ret = "none"
  /\ calls = <<>>
  /\ opts = [built |-> FALSE, Resume |-> FALSE]
  /\ origin = NoOrigin
  /\ processed = {}
  /\ lockIn = <<>>
  /\ written = <<>>

\* Run returns r (or panics) after the calls cs and the writes w
Return(r, cs, w) ==
  /\ ret' = r
  /\ calls' = calls \o cs
  /\ written' = written \o w
  /\ pc' = "done"

\* Run, lines 171-176: the source and destination checks
Validate ==
  /\ pc = "Run"
  /\ IF ~hasOneSrc(flags) THEN Return(ErrSrc, <<>>, <<>>)
     ELSE IF ~hasOneDst(flags) THEN Return(ErrDst, <<>>, <<>>)
     ELSE /\ pc' = "NewSimpleRegistry"
          /\ UNCHANGED <<ret, calls, written>>
  /\ UNCHANGED <<flags, opts, origin, processed, lockIn>>
  /\ UNCHANGED refVars

\* Run, lines 178-184: the registry client is constructed
NewSimpleRegistry ==
  /\ pc = "NewSimpleRegistry"
  /\ \/ Return(ErrRegistry, <<Call("NewSimpleRegistry", 0, "err")>>, <<>>)
     \/ /\ calls' = Append(calls, Call("NewSimpleRegistry", 0, "ok"))
        /\ pc' = "switch"
        /\ UNCHANGED <<ret, written>>
  /\ UNCHANGED <<flags, opts, origin, processed, lockIn>>
  /\ UNCHANGED refVars

\* Run, lines 186-249: opts are built, then the switch on the destination
\* up to the construction of the origin
Switch ==
  /\ pc = "switch"
  /\ opts' = CopyOpts(flags)
  /\ IF IsDst(flags)
     THEN IF CheckTarDst(flags) # Nil
          THEN Return(CheckTarDst(flags), <<>>, <<>>) /\ UNCHANGED origin
          ELSE /\ origin' = TarOrigin(flags)
               /\ pc' = "CopyToTar"
               /\ UNCHANGED <<ret, calls, written>>
     ELSE IF isRepoDst(flags)
     THEN IF CheckRepoDst(flags) # Nil
          THEN Return(CheckRepoDst(flags), <<>>, <<>>) /\ UNCHANGED origin
          ELSE /\ origin' = RepoOrigin(flags)
               /\ pc' = "CopyToRepository"
               /\ UNCHANGED <<ret, calls, written>>
     ELSE Return(Panic, <<>>, <<>>) /\ UNCHANGED origin
  /\ UNCHANGED <<flags, processed, lockIn>>
  /\ UNCHANGED refVars

\* Run, lines 230-237: v1.CopyToTar and its result
CopyToTar ==
  /\ pc = "CopyToTar"
  /\ \/ Return(Nil, <<Call("CopyToTar", 0, "ok")>>, <<>>)
     \/ Return(ErrCopy, <<Call("CopyToTar", 0, "err")>>, <<>>)
  /\ UNCHANGED <<flags, opts, origin, processed, lockIn>>
  /\ UNCHANGED refVars

\* the same step with the error of the copy not returned
CopyToRepository_ignoreErr ==
  /\ pc = "CopyToRepository"
  /\ \E r \in {"ok", "err"} :
       /\ processed' \in ProcessedSets(MaxImages)
       /\ calls' = Append(calls, Call("CopyToRepository", 0, r))
       /\ pc' = "writeLockOutput"
       /\ UNCHANGED <<ret, written>>
  /\ UNCHANGED <<flags, opts, origin, lockIn>>
  /\ UNCHANGED refVars

\* Run, lines 251-257: v1.CopyToRepository and its result
CopyToRepository ==
  /\ pc = "CopyToRepository"
  /\ \/ /\ Return(ErrCopy, <<Call("CopyToRepository", 0, "err")>>, <<>>)
        /\ UNCHANGED processed
     \/ /\ processed' \in ProcessedSets(MaxImages)
        /\ calls' = Append(calls, Call("CopyToRepository", 0, "ok"))
        /\ pc' = "writeLockOutput"
        /\ UNCHANGED <<ret, written>>
  /\ UNCHANGED <<flags, opts, origin, lockIn>>
  /\ UNCHANGED refVars

\* writeLockOutput, lines 273-291: a root bundle was found
WriteRootBundle(root) ==
  IF root.kind = "index" THEN Return(Panic, <<>>, <<>>)
  ELSE LET foundBundle == NewBundle(root.dst, root.tag)
       IN CASE root.kind = "err" -> Return(ErrCheck, <<IsBundle(root)>>, <<>>)
            [] root.kind = "image" -> Return(Panic, <<IsBundle(root)>>, <<>>)
            [] OTHER ->
                 \/ Return(Nil, <<IsBundle(root), WriteToPath("ok")>>,
                           <<BundleLock(flags, foundBundle)>>)
                 \/ Return(ErrWrite, <<IsBundle(root), WriteToPath("err")>>,
                           <<BundleLock(flags, foundBundle)>>)

\* writeImagesLockOutput, lines 366-396, after the detector calls det
WriteImagesLock(det) ==
  LET read == Call("NewImagesLockFromPath", 0, "ok")
  IN IF flags.lock # ""
     THEN \/ /\ Return(ErrRead,
                       Append(det, Call("NewImagesLockFromPath", 0, "err")), <<>>)
             /\ UNCHANGED lockIn
          \/ \E in \in LockInputs :
               /\ lockIn' = in
               /\ IF \E i \in 1..Len(in) :
                       FindByURL(processed, [DigestRef |-> in[i], Tag |-> ""]) = {}
                  THEN Return(ErrNotCopied, Append(det, read), <<>>)
                  ELSE \E img \in [1..Len(in) -> processed] :
                         /\ \A i \in 1..Len(in) :
                              img[i] \in FindByURL(processed,
                                           [DigestRef |-> in[i], Tag |-> ""])
                         /\ \/ Return(Nil, det \o <<read, WriteToPath("ok")>>,
                                      <<ImagesLock(flags, RewrittenImages(in, img))>>)
                            \/ Return(ErrWrite, det \o <<read, WriteToPath("err")>>,
                                      <<ImagesLock(flags, RewrittenImages(in, img))>>)
     ELSE /\ UNCHANGED lockIn
          /\ \E all \in All(processed) :
               \/ Return(Nil, Append(det, WriteToPath("ok")),
                         <<ImagesLock(flags, ListedImages(all))>>)
               \/ Return(ErrWrite, Append(det, WriteToPath("err")),
                         <<ImagesLock(flags, ListedImages(all))>>)

\* Run line 259 and writeLockOutput, lines 266-301, with the functions it calls
WriteLockOutput ==
  /\ pc = "writeLockOutput"
  /\ IF flags.lockOut = ""
     THEN Return(Nil, <<>>, <<>>) /\ UNCHANGED lockIn
     ELSE \E all \in All(processed) :
            LET root == findProcessedImageRootBundle(all)
            IN IF root.st = Panic
               THEN Return(Panic, <<>>, <<>>) /\ UNCHANGED lockIn
               ELSE IF root.st = "found"
               THEN WriteRootBundle(root.img) /\ UNCHANGED lockIn
               ELSE \E all2 \in All(processed) :
                      LET e == informUserIfTarballNeedsToBeRecreated(all2)
                      IN IF e.err # Nil
                         THEN /\ Return(e.err, e.calls, <<>>)
                              /\ UNCHANGED lockIn
                         ELSE WriteImagesLock(e.calls)
  /\ UNCHANGED <<flags, opts, origin, processed>>
  /\ UNCHANGED refVars

Next ==
  \/ Validate
  \/ NewSimpleRegistry
  \/ Switch
  \/ CopyToTar
  \/ CopyToRepository
  \/ WriteLockOutput

Spec == Init /\ [][Next]_vars

TypeOK ==
  /\ flags \in CopyOptions
  /\ pc \in {"Run", "NewSimpleRegistry", "switch", "CopyToTar",
             "CopyToRepository", "writeLockOutput", "done"}
  /\ processed \in SUBSET ProcessedImage
  /\ Len(written) <= 1

\* ---------------------------------------- actions of UnprocessedImageRefs
\* Each worker calls Add, All and Length one after the other; a call is
\* split where another goroutine can run in between.

SetPc(w, p) == wpc' = [wpc EXCEPT ![w] = p]

\* a call of w starts
Starts(w) == ~aborted /\ wpc[w] = "idle" /\ ops < MaxOps /\ ops' = ops + 1

\* Add, line 49, called with an argument of U: imgRef.Validate(); a panic
\* unwinds out of Add
AddCallFrom(w, U) ==
  /\ Starts(w)
  /\ \E u \in U :
       /\ warg' = [warg EXCEPT ![w] = u]
       /\ IF ValidateRef(u) = Panic
          THEN SetPc(w, "panicked") /\ aborted' = TRUE
          ELSE SetPc(w, "add_lock") /\ UNCHANGED aborted
  /\ UNCHANGED <<imgRefs, mutex, wres, lenSizes>>
  /\ UNCHANGED runVars

AddCall(w) == AddCallFrom(w, AddInputs)

\* Add, line 51: i.lock.Lock()
AddLock(w) ==
  /\ ~aborted /\ wpc[w] = "add_lock" /\ mutex = 0
  /\ mutex' = w
  /\ SetPc(w, "add_cs")
  /\ UNCHANGED <<imgRefs, warg, wres, lenSizes, aborted, ops>>
  /\ UNCHANGED runVars

\* Add, line 53: i.imgRefs[imgRef.Key()] = imgRef, with the mutex held
AddStore(w) ==
  /\ ~aborted /\ wpc[w] = "add_cs"
  /\ imgRefs' = Put(imgRefs, warg[w])
  /\ SetPc(w, "add_unlock")
  /\ lenSizes' = [v \in Workers |->
                    IF wpc[v] = "len_read"
                    THEN lenSizes[v] \cup {Length(imgRefs')} ELSE lenSizes[v]]
  /\ UNCHANGED <<mutex, warg, wres, aborted, ops>>
  /\ UNCHANGED runVars

\* Add, lines 52 and 54: the deferred i.lock.Unlock() and the return
AddUnlock(w) ==
  /\ ~aborted /\ wpc[w] = "add_unlock"
  /\ mutex' = 0
  /\ SetPc(w, "idle")
  /\ wres' = [wres EXCEPT ![w] = [NoResult EXCEPT !.op = "Add"]]
  /\ warg' = [warg EXCEPT ![w] = NoArg]
  /\ UNCHANGED <<imgRefs, lenSizes, aborted, ops>>
  /\ UNCHANGED runVars

\* All is called
AllCall(w) ==
  /\ Starts(w)
  /\ SetPc(w, "all_lock")
  /\ UNCHANGED <<imgRefs, mutex, warg, wres, lenSizes, aborted>>
  /\ UNCHANGED runVars

\* All, line 61: i.lock.Lock()
AllLock(w) ==
  /\ ~aborted /\ wpc[w] = "all_lock" /\ mutex = 0
  /\ mutex' = w
  /\ SetPc(w, "all_cs")
  /\ UNCHANGED <<imgRefs, warg, wres, lenSizes, aborted, ops>>
  /\ UNCHANGED runVars

\* All, lines 62-72: the copy of the map, the sort, the deferred Unlock
AllReturn(w) ==
  /\ ~aborted /\ wpc[w] = "all_cs"
  /\ \E s \in AllRefs(imgRefs) :
       wres' = [wres EXCEPT ![w] =
                  [NoResult EXCEPT !.op = "All", !.seq = s, !.snap = imgRefs]]
  /\ mutex' = 0
  /\ SetPc(w, "idle")
  /\ UNCHANGED <<imgRefs, warg, lenSizes, aborted, ops>>
  /\ UNCHANGED runVars

\* Length is called
LengthCall(w) ==
  /\ Starts(w)
  /\ SetPc(w, "len_read")
  /\ lenSizes' = [lenSizes EXCEPT ![w] = {Length(imgRefs)}]
  /\ UNCHANGED <<imgRefs, mutex, warg, wres, aborted>>
  /\ UNCHANGED runVars

\* the workers that hold the mutex inside Add while w reads
Writers(w) == {v \in Workers \ {w} : wpc[v] \in {"add_cs", "add_unlock"}}

\* Length, line 57: len(i.imgRefs) is read without the lock, also while an
\* Add holds it, before or after that Add's store
LengthRead(w) ==
  /\ ~aborted /\ wpc[w] = "len_read"
  /\ LET n == Length(imgRefs)
     IN wres' = [wres EXCEPT ![w] =
                   [NoResult EXCEPT !.op = "Length", !.len = n,
                                    !.raced = (Writers(w) # {}),
                                    !.exact = (n \in lenSizes[w])]]
  /\ SetPc(w, "idle")
  /\ lenSizes' = [lenSizes EXCEPT ![w] = {}]
  /\ UNCHANGED <<imgRefs, mutex, warg, aborted, ops>>
  /\ UNCHANGED runVars

NextRefs ==
  \E w \in Workers :
    \/ AddCall(w)
    \/ AddLock(w)
    \/ AddStore(w)
    \/ AddUnlock(w)
    \/ AllCall(w)
    \/ AllLock(w)
    \/ AllReturn(w)
    \/ LengthCall(w)
    \/ LengthRead(w)

NoFlags ==
  [lock |-> "", tarSrc |-> "", bundle |-> "", image |-> "", repoDst |-> "",
   tarDst |-> "", resume |-> FALSE, lockOut |-> ""]

\* no copy command runs while the set is exercised
InitRefs == Init /\ flags = NoFlags

SpecRefs == InitRefs /\ [][NextRefs]_vars

\* Add and All alone, with few arguments and fewer calls
FairInputs ==
  {u \in AddInputs : u.OrigRef = "o1" /\ u.Tag = "" /\ u.DigestRef # RefShort}

FairAddCall(w) == ops < MaxFairOps /\ AddCallFrom(w, FairInputs)
FairAllCall(w) == ops < MaxFairOps /\ AllCall(w)

NextFair ==
  \E w \in Workers :
    \/ FairAddCall(w)
    \/ AddLock(w)
    \/ AddStore(w)
    \/ AddUnlock(w)
    \/ FairAllCall(w)
    \/ AllLock(w)
    \/ AllReturn(w)

\* A started call keeps running, and sync.Mutex hands the lock to a waiting
\* goroutine (starvation mode), so a waiter that can take it again and again
\* does take it.
FairSpecRefs ==
  /\ InitRefs /\ [][NextFair]_vars
  /\ \A w \in Workers :
       /\ SF_vars(AddLock(w)) /\ WF_vars(AddStore(w)) /\ WF_vars(AddUnlock(w))
       /\ SF_vars(AllLock(w)) /\ WF_vars(AllReturn(w))

TypeOKRefs ==
  /\ mutex \in 0..NumWorkers
  /\ ops \in 0..MaxOps
  /\ \A w \in Workers :
       wpc[w] \in {"idle", "add_lock", "add_cs", "add_unlock", "all_lock", "all_cs",
                   "len_read", "panicked"}

\* ------------------------------------------------- vocabulary of the claims
Done == pc = "done"
Invoked(op) == \E i \in 1..Len(calls) : calls[i].op = op
Answered(op, res) == \E i \in 1..Len(calls) : calls[i].op = op /\ calls[i].res = res
CopyInvoked == Invoked("CopyToTar") \/ Invoked("CopyToRepository")
Rejected == Done /\ ret \notin {Nil, Panic, "none"}

\* the number of non-empty sources, counted without hasOneSrc
NumSrc == Cardinality({i \in 1..4 : SrcRefs(flags)[i] # ""})
RepoSet == flags.repoDst # ""
TarSet == flags.tarDst # ""
OneDstSet == (RepoSet /\ ~TarSet) \/ (TarSet /\ ~RepoSet)

\* C1: with zero or with two or more non-empty sources Run returns the source
\* error, and no collaborator is called and no lock file written in that run;
\* the source error is returned in no other run.
C1_ExactlyOneSource ==
  /\ NumSrc # 1 =>
       /\ calls = <<>> /\ written = <<>> /\ pc \in {"Run", "done"}
       /\ Done => ret = ErrSrc
  /\ ret = ErrSrc => NumSrc # 1
  /\ NumSrc = 1 /\ pc # "Run" => ret # ErrSrc

C1_Witness == Done /\ NumSrc = 2 /\ ret = ErrSrc

\* C2 as stated: with neither or both destinations set Run returns the
\* destination error, calls no copy operation and writes no lock file; with
\* exactly one set, CopyToTar is invoked only for the tar destination,
\* CopyToRepository only for the repository destination, never both.
C2_DestinationError ==
  /\ ~OneDstSet =>
       /\ ~CopyInvoked /\ written = <<>> /\ ~Invoked("WriteToPath")
       /\ Done => ret = ErrDst
  /\ Invoked("CopyToTar") => TarSet /\ ~RepoSet
  /\ Invoked("CopyToRepository") => RepoSet /\ ~TarSet
  /\ ~(Invoked("CopyToTar") /\ Invoked("CopyToRepository"))

\* C2 amended: the source check comes first. With neither or both
\* destinations set Run calls no copy operation, writes no lock file and is
\* rejected: with the destination error if exactly one source is set, with
\* the source error otherwise; the destination error is returned in no other
\* run. With exactly one destination set, CopyToTar is invoked only for the
\* tar destination, CopyToRepository only for the repository destination,
\* never both, and a run that succeeds has invoked the one of its destination.
C2_ExactlyOneDestination ==
  /\ ~OneDstSet =>
       /\ ~CopyInvoked /\ written = <<>> /\ ~Invoked("WriteToPath")
       /\ Done /\ NumSrc = 1 => ret = ErrDst
       /\ Done /\ NumSrc # 1 => ret = ErrSrc
  /\ ret = ErrDst => ~OneDstSet /\ NumSrc = 1
  /\ Invoked("CopyToTar") => TarSet /\ ~RepoSet
  /\ Invoked("CopyToRepository") => RepoSet /\ ~TarSet
  /\ ~(Invoked("CopyToTar") /\ Invoked("CopyToRepository"))
  /\ OneDstSet /\ Done /\ ret = Nil =>
       (TarSet <=> Invoked("CopyToTar")) /\ (RepoSet <=> Invoked("CopyToRepository"))

C2_Witness == Done /\ NumSrc = 1 /\ RepoSet /\ TarSet /\ ret = ErrDst

\* C3 as stated: with one source, resume set and only the repository
\* destination, Run returns the resume error and never calls CopyToRepository;
\* with a tar destination the copy options carry the resume flag unchanged.
C3_ResumeOnlyWithTar ==
  /\ flags.resume /\ RepoSet /\ ~TarSet /\ NumSrc = 1 =>
       /\ ~Invoked("CopyToRepository")
       /\ Done => ret = ErrResume
  /\ TarSet /\ opts.built => opts.Resume = flags.resume

\* C4: a lock-output path together with --to-tar is rejected and CopyToTar is
\* not invoked; a run that reaches CopyToTar writes no lock file, whatever the
\* copy returns.
C4_TarDstNoLockOutput ==
  /\ TarSet /\ flags.lockOut # "" =>
       /\ ~Invoked("CopyToTar") /\ pc # "CopyToTar"
       /\ Done => Rejected
  /\ pc = "CopyToTar" \/ Invoked("CopyToTar") =>
       /\ written = <<>> /\ ~Invoked("WriteToPath")
       /\ flags.lockOut = ""
  /\ Invoked("CopyToTar") => Done /\ ret \in {Nil, ErrCopy}

C4_Witness ==
  /\ Done /\ TarSet /\ ~RepoSet /\ NumSrc = 1 /\ flags.tarSrc = ""
  /\ flags.lockOut # "" /\ ret = ErrLockTar

\* C5: with both --tar and --to-tar set Run returns an error and CopyToTar is
\* not invoked; the origin CopyToTar is called with has no tar path and
\* exactly one of image, bundle and lockfile.
C5_TarSrcNotWithTarDst ==
  /\ flags.tarSrc # "" /\ TarSet =>
       /\ ~Invoked("CopyToTar") /\ pc # "CopyToTar"
       /\ Done => Rejected
  /\ pc = "CopyToTar" \/ Invoked("CopyToTar") =>
       /\ flags.tarSrc = "" /\ origin.TarPath = ""
       /\ Cardinality({x \in {origin.ImageRef, origin.BundleRef,
                               origin.LockfilePath} : x # ""}) = 1

C5_Witness ==
  /\ Done /\ flags.tarSrc # "" /\ TarSet /\ ~RepoSet /\ NumSrc = 1
  /\ ret = ErrTarTar /\ Invoked("NewSimpleRegistry")

\* C6 as stated: in a run whose flags violate a validation rule no
\* collaborator has been called, and what Run returns is a validation error.
FlagsViolateRule ==
  \/ NumSrc # 1
  \/ ~OneDstSet
  \/ flags.resume /\ RepoSet
  \/ flags.lockOut # "" /\ TarSet
  \/ flags.tarSrc # "" /\ TarSet

C6_ValidationBeforeIO ==
  FlagsViolateRule =>
    /\ calls = <<>>
    /\ Done => ret \in ValidationErrors

\* ------------------------------------------------------ the lock writer
\* the writer ran to its end: the copy succeeded and a lock output was asked
WriterRan ==
  Done /\ Answered("CopyToRepository", "ok") /\ flags.lockOut # ""
Roots == {p \in processed : p.root}
WrittenKinds == {written[i].kind : i \in 1..Len(written)}
IsBundleCalls == {i \in 1..Len(calls) : calls[i].op = "IsBundle"}

\* C7: when the writer runs and exactly one processed image carries the
\* root-bundle marker, no ImagesLock is written; unless the image is an image
\* index the detector is asked once, about that image; if it answers true
\* exactly one BundleLock is handed to WriteToPath, holding the image's
\* destination digest reference and its tag; if it answers with an error the
\* check error is returned and nothing is written; in every other case
\* nothing is written either.
C7_RootBundleLock ==
  WriterRan /\ Cardinality(Roots) = 1 =>
    LET r == CHOOSE p \in Roots : TRUE
    IN /\ "ImagesLock" \notin WrittenKinds
       /\ ~Invoked("NewImagesLockFromPath")
       /\ r.kind # "index" =>
            /\ Cardinality(IsBundleCalls) = 1
            /\ \A i \in IsBundleCalls : calls[i].arg = r.dst
       /\ r.kind = "bundle" =>
            /\ written = <<[path |-> flags.lockOut, kind |-> "BundleLock",
                            image |-> r.dst, tag |-> r.tag]>>
            /\ ret \in {Nil, ErrWrite}
            /\ ret = Nil <=> Answered("WriteToPath", "ok")
       /\ r.kind = "err" => ret = ErrCheck /\ written = <<>>
       /\ r.kind # "bundle" => written = <<>> /\ ~Invoked("WriteToPath")

C7_Witness ==
  /\ WriterRan /\ Cardinality(Roots) = 1 /\ Cardinality(processed) = 2
  /\ \E r \in Roots : r.tag = "v1" /\ r.dst # r.src
  /\ ret = Nil /\ Len(written) = 1 /\ written[1].kind = "BundleLock"

\* C8: when the writer runs and no processed image carries the marker, a
\* detector answer of true makes the writer return the
\* root-bundle-indeterminate error with nothing written; if some processed
\* image is a bundle nothing is written, and the error is the indeterminate
\* one unless the detector failed on an image enumerated before it; an
\* ImagesLock is written only when every processed image is an image index
\* or was answered false by the detector.
C8_RootBundleIndeterminate ==
  /\ WriterRan /\ Roots = {} /\ Answered("IsBundle", "true") =>
       ret = ErrIndeterminate /\ written = <<>>
  /\ WriterRan /\ Roots = {} /\ (\E p \in processed : p.kind = "bundle") =>
       /\ written = <<>> /\ ~Invoked("WriteToPath")
       /\ ret \in {ErrIndeterminate, ErrCheck}
       /\ (\A p \in processed : p.kind # "err") => ret = ErrIndeterminate
  /\ "ImagesLock" \in WrittenKinds =>
       \A p \in processed :
         /\ p.kind \in {"index", "image"}
         /\ p.kind = "image" =>
              \E i \in IsBundleCalls : calls[i].arg = p.dst /\ calls[i].res = "false"

C8_Witness ==
  /\ WriterRan /\ Roots = {} /\ ret = ErrIndeterminate /\ written = <<>>
  /\ \E p, q \in processed : p.kind = "image" /\ q.kind = "bundle" /\ p.dst < q.dst

\* C9: in a run started from a lock file, an ImagesLock handed to WriteToPath
\* has as many entries as the input, and entry i is the destination digest
\* reference of a processed image whose source digest reference is input
\* entry i, whatever that image's tag; if the input was read and some entry
\* has no such processed image the writer returns image-not-copied and
\* nothing is written.
C9_LockInputRewritten ==
  /\ flags.lock # "" /\ "ImagesLock" \in WrittenKinds =>
       /\ Len(written) = 1
       /\ Len(written[1].images) = Len(lockIn)
       /\ \A i \in 1..Len(lockIn) :
            \E p \in processed : p.src = lockIn[i] /\ written[1].images[i] = p.dst
  /\ /\ flags.lock # "" /\ Answered("NewImagesLockFromPath", "ok")
     /\ \E i \in 1..Len(lockIn) : \A p \in processed : p.src # lockIn[i]
     => ret = ErrNotCopied /\ written = <<>> /\ ~Invoked("WriteToPath")
  /\ ret = ErrNotCopied =>
       \E i \in 1..Len(lockIn) : \A p \in processed : p.src # lockIn[i]

C9_Witness ==
  /\ Done /\ flags.lock # "" /\ ret = Nil /\ Len(written) = 1
  /\ written[1].kind = "ImagesLock" /\ Len(lockIn) = 2
  /\ lockIn[1] > lockIn[2]
  /\ \A p \in processed : p.tag = "v1" /\ p.dst # p.src
  /\ written[1].images[1] # written[1].images[2]

\* C10: in a run not started from a lock file, an ImagesLock handed to
\* WriteToPath has exactly one entry per processed image, holding the image's
\* destination digest reference, in ascending order; it is written whenever
\* the writer runs with no marked image and no bundle and no detector error.
C10_AllImagesListed ==
  /\ flags.lock = "" /\ "ImagesLock" \in WrittenKinds =>
       LET imgs == written[1].images
           n == Cardinality(processed)
       IN /\ Len(written) = 1
          /\ Len(imgs) = n
          /\ \E s \in [1..n -> processed] :
               /\ \A p \in processed : \E i \in 1..n : s[i] = p
               /\ \A i \in 1..n : imgs[i] = s[i].dst
          /\ \A i \in 1..n : \A j \in 1..n : i < j => imgs[i] <= imgs[j]
  /\ /\ WriterRan /\ flags.lock = "" /\ Roots = {}
     /\ \A p \in processed : p.kind \in {"index", "image"}
     => "ImagesLock" \in WrittenKinds /\ ret \in {Nil, ErrWrite}

C10_Witness ==
  /\ WriterRan /\ flags.lock = "" /\ ret = Nil
  /\ Cardinality(processed) = 2 /\ Len(written) = 1
  /\ written[1].kind = "ImagesLock"
  /\ \E p, q \in processed : p.src < q.src /\ p.dst > q.dst
  /\ written[1].images[1] < written[1].images[2]

\* C11 as stated: with two or more marked images, or one marked image that
\* is an image index or that the detector answers false for, the writer
\* returns an error to its caller (the process is not aborted) and writes no
\* lock file.
InconsistentRoots ==
  \/ Cardinality(Roots) >= 2
  \/ \E r \in Roots : Cardinality(Roots) = 1 /\ r.kind \in {"index", "image"}

C11_InconsistencyReturned ==
  WriterRan /\ InconsistentRoots =>
    /\ ret \notin {Panic, Nil, "none"}
    /\ written = <<>>

\* C18: a lock file is written only after CopyToRepository returned without
\* error, in a run with a lock-output path; if the copy returns an error Run
\* returns it and the writer is not entered; with an empty lock-output path
\* the writer returns success without asking about any processed image.
C18_LockWriterLast ==
  /\ written # <<>> \/ Invoked("WriteToPath") =>
       /\ flags.lockOut # ""
       /\ \E i \in 1..Len(calls) : \E j \in 1..Len(calls) :
            /\ i < j /\ j = Len(calls)
            /\ calls[i] = Call("CopyToRepository", 0, "ok")
            /\ calls[j].op = "WriteToPath"
       /\ Done
  /\ Answered("CopyToRepository", "err") =>
       /\ Done /\ ret = ErrCopy /\ written = <<>> /\ processed = {}
       /\ calls[Len(calls)].op = "CopyToRepository"
  /\ pc = "writeLockOutput" => Answered("CopyToRepository", "ok")
  /\ Invoked("IsBundle") \/ Invoked("NewImagesLockFromPath") =>
       Answered("CopyToRepository", "ok") /\ flags.lockOut # ""
  /\ Done /\ Answered("CopyToRepository", "ok") /\ flags.lockOut = "" =>
       /\ ret = Nil /\ written = <<>>
       /\ calls[Len(calls)] = Call("CopyToRepository", 0, "ok")

C18_Witness ==
  /\ Done /\ Answered("CopyToRepository", "err") /\ ret = ErrCopy
  /\ flags.lockOut # "" /\ written = <<>>

\* C19: whenever a copy is about to be or has been invoked, the origin has
\* exactly one non-empty field among the four, and each field holds the
\* flag of its source: image, bundle, lock file, tar.
OriginFields ==
  <<origin.LockfilePath, origin.TarPath, origin.BundleRef, origin.ImageRef>>

C19_OriginIsTheSource ==
  pc \in {"CopyToTar", "CopyToRepository"} \/ CopyInvoked =>
    /\ Cardinality({i \in 1..4 : OriginFields[i] # ""}) = 1
    /\ origin.ImageRef = flags.image
    /\ origin.BundleRef = flags.bundle
    /\ origin.LockfilePath = flags.lock
    /\ origin.TarPath = flags.tarSrc
    /\ OriginFields = SrcRefs(flags)

C19_Witness ==
  /\ Invoked("CopyToRepository") /\ flags.tarSrc # ""
  /\ origin.TarPath = "src.tar" /\ origin.ImageRef = ""

\* ------------------------------------------------- UnprocessedImageRefs
ValidRef(ref) == ref.sep = "@" /\ ref.algo = "sha256" /\ ref.hexlen = 64
Records(m) == {m[k] : k \in DOMAIN m}
AddStores(w) == wpc[w] = "add_cs" /\ wpc'[w] = "add_unlock"

\* C12: every record is held under its own key digest_ref + ":" + tag, one
\* record per key; the store of an Add puts its argument under that key,
\* replacing what was there, adds no other key and leaves the records under
\* every other key as they were; no other step changes the map.
C12_OwnKey ==
  \A k \in DOMAIN imgRefs : k = <<imgRefs[k].DigestRef, ":", imgRefs[k].Tag>>

C12_Store ==
  /\ \A w \in Workers :
       AddStores(w) =>
         LET u == warg[w]
             key == <<u.DigestRef, ":", u.Tag>>
         IN /\ DOMAIN imgRefs' = DOMAIN imgRefs \cup {key}
            /\ imgRefs'[key] = u
            /\ \A k \in DOMAIN imgRefs \ {key} : imgRefs'[k] = imgRefs[k]
  /\ (\A w \in Workers : ~AddStores(w)) => imgRefs' = imgRefs

C12_AddOverwrites == []C12_OwnKey /\ [][C12_Store]_vars

C12_Witness ==
  /\ ops = 4 /\ ~aborted /\ Length(imgRefs) = 3
  /\ \A w \in Workers : wpc[w] = "idle" /\ wres[w].op = "Add"
  /\ \E a, b, c \in Records(imgRefs) :
       /\ a.DigestRef = RefA1 /\ a.Tag = "" /\ a.OrigRef = "o2"
       /\ b.DigestRef = RefA1 /\ b.Tag = "v1"
       /\ c.DigestRef = RefB1

\* C13: what All returns holds every record of the map exactly once, in
\* ascending order of DigestRef (no record is followed by one with a smaller
\* DigestRef), and the steps of All leave the map as it was.
C13_Snapshot ==
  \A w \in Workers :
    wres[w].op = "All" =>
      LET s == wres[w].seq
          m == wres[w].snap
      IN /\ Len(s) = Cardinality(DOMAIN m)
         /\ \A k \in DOMAIN m : Cardinality({i \in 1..Len(s) : s[i] = m[k]}) = 1
         /\ \A i \in 1..Len(s) : \A j \in 1..Len(s) :
              i < j => ~StrLess(s[j].DigestRef, s[i].DigestRef)

AllSteps(w) ==
  \/ wpc[w] = "idle" /\ wpc'[w] = "all_lock"
  \/ wpc[w] = "all_lock" /\ wpc'[w] = "all_cs"
  \/ wpc[w] = "all_cs" /\ wpc'[w] = "idle"

C13_Step ==
  \A w \in Workers :
    /\ AllSteps(w) => imgRefs' = imgRefs
    /\ wpc[w] = "all_cs" /\ wpc'[w] = "idle" => wres'[w].snap = imgRefs

C13_AllSortedSnapshot == []C13_Snapshot /\ [][C13_Step]_vars

C13_Witness ==
  \E w \in Workers :
    /\ wres[w].op = "All" /\ Len(wres[w].seq) = 3
    /\ wres[w].seq[1].DigestRef = RefA1 /\ wres[w].seq[3].DigestRef = RefB1

\* C14 as stated: two calls of All on sets with the same contents return the
\* same sequence.
C14_AllDeterministic ==
  \A v, w \in Workers :
    wres[v].op = "All" /\ wres[w].op = "All" /\ wres[v].snap = wres[w].snap
      => wres[v].seq = wres[w].seq

\* C15 as stated: Length returns a size the map had between its call and
\* its return, and does not read the map while an Add holds the mutex.
C15_LengthExact ==
  \A w \in Workers :
    wres[w].op = "Length" => wres[w].exact /\ ~wres[w].raced

\* C16: in every reachable state, whatever Adds were called, every stored
\* record's DigestRef is a digested reference.
C16_StoredDigestsValid ==
  \A k \in DOMAIN imgRefs : ValidRef(imgRefs[k].DigestRef)

C16_Witness ==
  /\ aborted /\ Length(imgRefs) = 2
  /\ \E w \in Workers : wpc[w] = "panicked" /\ warg[w].DigestRef = RefShort

\* a worker whose Add was called with a reference that has no valid digest
RejectedAdd(w) == warg[w].OrigRef # "" /\ ~ValidRef(warg[w].DigestRef)

\* C17 as stated: an Add of a reference without digest returns (a typed
\* error) to its caller and does not panic.
C17_TypedError ==
  \A w \in Workers : RejectedAdd(w) => wpc[w] = "idle" /\ ~aborted

InCS(w) == wpc[w] \in {"add_cs", "add_unlock", "all_cs"}

\* at most one call is inside a critical section, the mutex is held exactly
\* by the worker inside it, and by no call that has ended
C20_Mutex ==
  /\ Cardinality({w \in Workers : InCS(w)}) <= 1
  /\ \A w \in Workers : mutex = w <=> InCS(w)
  /\ mutex = 0 <=> \A w \in Workers : ~InCS(w)
  /\ \A w \in Workers : wpc[w] \in {"idle", "panicked"} => mutex # w

\* C20 as stated: calls of Add and All exclude each other, the mutex is free
\* after each call ends, also after an Add that validation rejected, and
\* under fair scheduling every call eventually returns.
C20_SerializedAndReturns ==
  /\ []C20_Mutex
  /\ \A w \in Workers : (wpc[w] # "idle") ~> (wpc[w] = "idle")

====
